---------------------------- MODULE Spec2Model ----------------------------
(* Model of devai-cli/src/devai/commands/document.py: the `document`       *)
(* command group (readme, update-readme, releasenotes,                     *)
(* update-releasenotes), the prompt lookup get_prompt and                  *)
(* ensure_env_variable.                                                    *)
(*                                                                         *)
(* Text is a sequence of items.  An item >= 0 is a Unicode code point; an  *)
(* item < 0 stands for one string literal of the source file, which is     *)
(* longer than any text the environment supplies here and so never equal   *)
(* to one.  Optional values (Python's None) are records [some, val].       *)
EXTENDS Integers, Sequences, FiniteSets, TLC

(***************************************************************************)
(* Bounds and input sets                                                   *)
(***************************************************************************)
MaxPayloadLen == 2

\* bytes a stored secret is made of: 'A', and the two bytes of U+00E9
Bytes == {65, 195, 169}

RECURSIVE SeqsUpTo(_, _)
SeqsUpTo(S, n) ==
    IF n = 0 THEN {<<>>}
    ELSE LET shorter == SeqsUpTo(S, n - 1)
         IN  shorter \cup {Append(s, x) : s \in {t \in shorter : Len(t) = n - 1}, x \in S}

Payloads == SeqsUpTo(Bytes, MaxPayloadLen)

None == [some |-> FALSE, val |-> <<>>]
Some(v) == [some |-> TRUE, val |-> v]

\* values of -c/--context; "" is the declared default
Contexts == {<<>>, <<46>>}
\* values of -f/--file and -v/--version; None when the option is omitted
OptionValues == {None, Some(<<49>>)}
\* values of the PROJECT_ID environment variable
ProjectIds == {None, Some(<<>>), Some(<<112>>)}
\* texts format_files_as_string hands back
Blobs == {<<98>>, <<99>>}
\* reply texts of the generative model
Replies == {<<114>>, <<115>>}

(***************************************************************************)
(* Literals of the source                                                  *)
(***************************************************************************)
ReadmeBanner == <<-1>>
ReadmeDefaultInstruction == <<-2>>
UpdateReadmePlaceholder == <<-3>>
ReleaseNotesBanner == <<-4>>
ReleaseNotesDefaultInstruction == <<-5>>
UpdateReleaseNotesPlaceholder == <<-6>>
SourceHead == <<-7>>
SourceTail == <<-8>>

ReadmeKey == "document_readme"
\* the secrets the store holds templates under: the README template alone
SecretIds == {ReadmeKey}

GeneratingCommands == {"readme", "releasenotes"}
StubCommands == {"update-readme", "update-releasenotes"}
Commands == GeneratingCommands \cup StubCommands


(***************************************************************************)
(* Pure functions                                                          *)
(***************************************************************************)
\* bytes.decode("utf-8"), strict: the one- and two-byte forms.  Bytes holds
\* no lead byte of a longer form, so any other byte is an invalid start
\* byte here.
RECURSIVE Utf8Decode(_)
Utf8Decode(data) ==
    IF data = <<>> THEN [ok |-> TRUE, text |-> <<>>]
    ELSE IF data[1] < 128
         THEN LET rest == Utf8Decode(Tail(data))
              IN  [ok |-> rest.ok,
                   text |-> IF rest.ok THEN <<data[1]>> \o rest.text ELSE <<>>]
    ELSE IF /\ data[1] >= 194
            /\ data[1] <= 223
            /\ Len(data) >= 2
            /\ data[2] >= 128
            /\ data[2] <= 191
         THEN LET rest == Utf8Decode(Tail(Tail(data)))
              IN  [ok |-> rest.ok,
                   text |-> IF rest.ok
                            THEN <<(data[1] - 192) * 64 + (data[2] - 128)>> \o rest.text
                            ELSE <<>>]
    ELSE [ok |-> FALSE, text |-> <<>>]

\* the f-string of get_prompt that names the secret version
SecretName(project, secret_id) ==
    [project |-> project, secret |-> secret_id, version |-> "latest"]

\* source.format(blob): the one replacement field takes the blob as it is
SourceFormat(blob) == SourceHead \o blob \o SourceTail

\* the options click declares for a command; click passes each of them to
\* the callback as a keyword argument, given or omitted
DeclaredOptions(c) ==
    CASE c = "readme" -> {"context"}
      [] c = "update-readme" -> {"file", "context"}
      [] c = "releasenotes" -> {"context"}
      [] c = "update-releasenotes" -> {"version", "context"}

\* the parameters of the callback's def
HandlerParameters(c) ==
    CASE c = "readme" -> {"context"}
      [] c = "update-readme" -> {"context"}
      [] c = "releasenotes" -> {"context"}
      [] c = "update-releasenotes" -> {"context"}

\* Python's call: a keyword argument the def does not name is a TypeError
CallBinds(c) == DeclaredOptions(c) \subseteq HandlerParameters(c)

\* the first click.echo of a callback
FirstEcho(c) ==
    CASE c = "readme" -> ReadmeBanner
      [] c = "update-readme" -> UpdateReadmePlaceholder
      [] c = "releasenotes" -> ReleaseNotesBanner
      [] c = "update-releasenotes" -> UpdateReleaseNotesPlaceholder

\* the argument of the get_prompt call of a generating command
PromptKey(c) ==
    CASE c = "readme" -> "document_readme"
      [] c = "releasenotes" -> "document_readme"

\* the instruction a generating command falls back to
DefaultInstruction(c) ==
    CASE c = "readme" -> ReadmeDefaultInstruction
      [] c = "releasenotes" -> ReleaseNotesDefaultInstruction

(***************************************************************************)
(* State                                                                   *)
(***************************************************************************)
VARIABLES
    environ,     \* os.environ: variable name -> optional text
    secrets,     \* the secret store of project StoreProject: id -> optional bytes
    cmd,         \* the command of the running (or last) invocation
    pc,          \* where that invocation stands
    context,     \* its -c/--context value
    project_id,  \* get_prompt: project_id, None before it is resolved
    name,        \* get_prompt: name
    payload,     \* get_prompt: response.payload.data
    prompt,      \* what get_prompt returned
    qry,         \* the instruction text
    source,      \* the wrapped context
    lookups,     \* get_prompt calls of this invocation
    clients,     \* secret-store clients this invocation tried to construct
    requests,    \* access_secret_version requests of this invocation
    sessions,    \* chat sessions this invocation started
    sent,        \* messages this invocation sent to the model, in order
    response,    \* the reply to the second message
    stdout,      \* lines written by click.echo
    exc,         \* the exception that ended the invocation, "none" otherwise
    log,         \* the steps taken, each with what the outside answered
    prev         \* a remembered earlier invocation (SpecPair only)

vars == <<environ, secrets, cmd, pc, context, project_id, name, payload, prompt,
          qry, source, lookups, clients, requests, sessions, sent, response,
          stdout, exc, log, prev>>

\* the project whose secrets `secrets` holds
StoreProject == <<112>>

NoName == SecretName(<<>>, "")
NoPrev == [set |-> FALSE, context |-> <<>>, log |-> <<>>, sent |-> <<>>,
           stdout |-> <<>>, exc |-> "none"]

\* a message as the model sees it: the session it came through and its text
Message(session, text) == [session |-> session, text |-> text]

Entry(step, kind, data) == [step |-> step, kind |-> kind, data |-> data]

\* what the log holds
Happened(step, kind) ==
    \E i \in DOMAIN log : log[i].step = step /\ log[i].kind = kind
DataOf(step) ==
    LET i == CHOOSE i \in DOMAIN log : log[i].step = step IN log[i].data

\* mutant of EnsureEnvVariable: `if not value`, so "" counts as unset
EnsureEnvVariableByTruthiness(var_name) ==
    LET value == environ[var_name]
    IN  IF ~value.some \/ value.val = <<>>
        THEN [raised |-> TRUE, value |-> <<>>]
        ELSE [raised |-> FALSE, value |-> value.val]

\* os.getenv(var_name), then the None test
EnsureEnvVariable(var_name) ==
    LET value == environ[var_name]
    IN  IF ~value.some
        THEN [raised |-> TRUE, value |-> <<>>]
        ELSE [raised |-> FALSE, value |-> value.val]

Init ==
    /\ environ \in [{"PROJECT_ID"} -> ProjectIds]
    /\ secrets \in [SecretIds -> {None} \cup {Some(p) : p \in Payloads}]
    /\ cmd = "none"
    /\ pc = "idle"
    /\ context = <<>>
    /\ project_id = None
    /\ name = NoName
    /\ payload = <<>>
    /\ prompt = None
    /\ qry = <<>>
    /\ source = <<>>
    /\ lookups = 0
    /\ clients = 0
    /\ requests = <<>>
    /\ sessions = 0
    /\ sent = <<>>
    /\ response = None
    /\ stdout = <<>>
    /\ exc = "none"
    /\ log = <<>>
    /\ prev = NoPrev

(***************************************************************************)
(* Actions                                                                 *)
(***************************************************************************)
\* mutant of Invoke: the chat session lives on from one invocation to the
\* next, with the messages it was sent
InvokeReusingSession(c, ctx, opt) ==
    /\ pc \in {"idle", "done", "raised"}
    /\ cmd' = c
    /\ context' = ctx
    /\ project_id' = None
    /\ name' = NoName
    /\ payload' = <<>>
    /\ prompt' = None
    /\ qry' = <<>>
    /\ source' = <<>>
    /\ lookups' = 0
    /\ clients' = 0
    /\ requests' = <<>>
    /\ sessions' = 0
    /\ response' = None
    /\ IF CallBinds(c)
       THEN /\ stdout' = <<FirstEcho(c)>>
            /\ exc' = "none"
            /\ pc' = IF c \in StubCommands THEN "done" ELSE "get_prompt"
            /\ log' = <<Entry("invoke", "called", <<>>)>>
       ELSE /\ stdout' = <<>>
            /\ exc' = "TypeError"
            /\ pc' = "raised"
            /\ log' = <<Entry("invoke", "TypeError", <<>>)>>
    /\ UNCHANGED <<environ, secrets, sent, prev>>

\* One run of `document <c>`: a new process, so every local starts afresh.
\* click calls the callback with one keyword argument per declared option;
\* a callback that binds runs up to its first call out of the module: the
\* stubs echo their placeholder and return, the generating commands echo
\* their banner and go on to get_prompt.
Invoke(c, ctx, opt) ==
    /\ pc \in {"idle", "done", "raised"}
    /\ cmd' = c
    /\ context' = ctx
    /\ project_id' = None
    /\ name' = NoName
    /\ payload' = <<>>
    /\ prompt' = None
    /\ qry' = <<>>
    /\ source' = <<>>
    /\ lookups' = 0
    /\ clients' = 0
    /\ requests' = <<>>
    /\ sessions' = 0
    /\ sent' = <<>>
    /\ response' = None
    /\ IF CallBinds(c)
       THEN /\ stdout' = <<FirstEcho(c)>>
            /\ exc' = "none"
            /\ pc' = IF c \in StubCommands THEN "done" ELSE "get_prompt"
            /\ log' = <<Entry("invoke", "called", <<>>)>>
       ELSE /\ stdout' = <<>>
            /\ exc' = "TypeError"
            /\ pc' = "raised"
            /\ log' = <<Entry("invoke", "TypeError", <<>>)>>
    /\ UNCHANGED <<environ, secrets, prev>>

\* get_prompt, lines 48-50 and 74-75: PROJECT_ID is resolved; the
\* EnvironmentError of ensure_env_variable is caught and logged, and the
\* function falls off its end, which returns None.
ResolveProject ==
    /\ pc = "get_prompt"
    /\ lookups' = lookups + 1
    /\ LET r == EnsureEnvVariable("PROJECT_ID")
       IN  IF r.raised
           THEN /\ prompt' = None
                /\ pc' = "select"
                /\ log' = Append(log, Entry("resolve_project", "EnvironmentError", <<>>))
                /\ UNCHANGED project_id
           ELSE /\ project_id' = Some(r.value)
                /\ pc' = "client"
                /\ log' = Append(log, Entry("resolve_project", "ok", r.value))
                /\ UNCHANGED prompt
    /\ UNCHANGED <<environ, secrets, cmd, context, name, payload, qry, source,
                   clients, requests, sessions, sent, response, stdout, exc, prev>>

\* what constructing SecretManagerServiceClient can do: succeed, fail with
\* an OSError (EnvironmentError is its alias), fail with any other error
ClientOutcomes == {"ok", "EnvironmentError", "Exception"}

\* get_prompt, lines 52-55.  The construction stands outside the inner
\* try: only the outer `except EnvironmentError` guards it, any other
\* error leaves get_prompt and the command.
ConstructClient(outcome) ==
    /\ pc = "client"
    /\ clients' = clients + 1
    /\ log' = Append(log, Entry("construct_client", outcome, <<>>))
    /\ CASE outcome = "ok" ->
              /\ name' = SecretName(project_id.val, PromptKey(cmd))
              /\ pc' = "access"
              /\ UNCHANGED <<prompt, exc>>
         [] outcome = "EnvironmentError" ->
              /\ prompt' = None
              /\ pc' = "select"
              /\ UNCHANGED <<name, exc>>
         [] outcome = "Exception" ->
              /\ exc' = "ClientError"
              /\ pc' = "raised"
              /\ UNCHANGED <<name, prompt>>
    /\ UNCHANGED <<environ, secrets, cmd, context, project_id, payload, qry,
                   source, lookups, requests, sessions, sent, response, stdout,
                   prev>>

\* what the secret store can do to a request besides answering from its
\* contents
Faults == {"none", "PermissionDenied", "Exception"}

\* the store's answer to a request for `n` under fault `fault`
StoreAnswer(n, fault) ==
    IF fault # "none" THEN fault
    ELSE IF n.project = StoreProject /\ n.secret \in SecretIds /\ secrets[n.secret].some
         THEN "payload"
         ELSE "NotFound"

\* mutant of AccessSecret: a failed request is sent once more before the
\* function gives up
AccessSecretWithRetry(fault) ==
    /\ pc = "access"
    /\ LET answer == StoreAnswer(name, fault)
       IN  IF answer = "payload"
           THEN /\ requests' = Append(requests, name)
                /\ payload' = secrets[name.secret].val
                /\ pc' = "decode"
                /\ log' = Append(log, Entry("access_secret", answer, secrets[name.secret].val))
                /\ UNCHANGED prompt
           ELSE /\ requests' = Append(Append(requests, name), name)
                /\ prompt' = None
                /\ pc' = "select"
                /\ log' = Append(log, Entry("access_secret", answer, <<>>))
                /\ UNCHANGED payload
    /\ UNCHANGED <<environ, secrets, cmd, context, project_id, name, qry, source,
                   lookups, clients, sessions, sent, response, stdout, exc, prev>>

\* get_prompt, lines 57 and 62-72: the one access request.  Each of the
\* three except clauses returns None.
AccessSecret(fault) ==
    /\ pc = "access"
    /\ requests' = Append(requests, name)
    /\ LET answer == StoreAnswer(name, fault)
       IN  IF answer = "payload"
           THEN /\ payload' = secrets[name.secret].val
                /\ pc' = "decode"
                /\ log' = Append(log, Entry("access_secret", answer, secrets[name.secret].val))
                /\ UNCHANGED prompt
           ELSE /\ prompt' = None
                /\ pc' = "select"
                /\ log' = Append(log, Entry("access_secret", answer, <<>>))
                /\ UNCHANGED payload
    /\ UNCHANGED <<environ, secrets, cmd, context, project_id, name, qry, source,
                   lookups, clients, sessions, sent, response, stdout, exc, prev>>

\* get_prompt, lines 58-60 and 70-72: the payload is decoded and returned;
\* a UnicodeDecodeError is an Exception, caught by the last except clause.
DecodePayload ==
    /\ pc = "decode"
    /\ LET d == Utf8Decode(payload)
       IN  /\ prompt' = IF d.ok THEN Some(d.text) ELSE None
           /\ log' = Append(log, Entry("decode", IF d.ok THEN "ok" ELSE "Exception", <<>>))
    /\ pc' = "select"
    /\ UNCHANGED <<environ, secrets, cmd, context, project_id, name, payload, qry,
                   source, lookups, clients, requests, sessions, sent, response,
                   stdout, exc, prev>>

\* mutant of SelectTemplate: `if not qry`, so an empty template gives way to
\* the default
SelectTemplateByTruthiness ==
    /\ pc = "select"
    /\ qry' = IF prompt = None \/ prompt.val = <<>>
              THEN DefaultInstruction(cmd)
              ELSE prompt.val
    /\ pc' = "format"
    /\ log' = Append(log, Entry("select_template", "ok", <<>>))
    /\ UNCHANGED <<environ, secrets, cmd, context, project_id, name, payload,
                   prompt, source, lookups, clients, requests, sessions, sent,
                   response, stdout, exc, prev>>

\* readme lines 93-133, releasenotes lines 180-186: qry is what get_prompt
\* returned, or the default when that is None
SelectTemplate ==
    /\ pc = "select"
    /\ qry' = IF prompt = None THEN DefaultInstruction(cmd) ELSE prompt.val
    /\ pc' = "format"
    /\ log' = Append(log, Entry("select_template", "ok", <<>>))
    /\ UNCHANGED <<environ, secrets, cmd, context, project_id, name, payload,
                   prompt, source, lookups, clients, requests, sessions, sent,
                   response, stdout, exc, prev>>

\* readme line 136, releasenotes line 189: format_files_as_string hands
\* back a blob, which goes into the wrapper
FormatContext(blob) ==
    /\ pc = "format"
    /\ source' = SourceFormat(blob)
    /\ pc' = "start_chat"
    /\ log' = Append(log, Entry("format_context", "ok", blob))
    /\ UNCHANGED <<environ, secrets, cmd, context, project_id, name, payload,
                   prompt, qry, lookups, clients, requests, sessions, sent,
                   response, stdout, exc, prev>>

\* readme lines 138-140, releasenotes lines 191-193: a new chat session
StartChat ==
    /\ pc = "start_chat"
    /\ sessions' = sessions + 1
    /\ pc' = "send_instruction"
    /\ log' = Append(log, Entry("start_chat", "ok", <<>>))
    /\ UNCHANGED <<environ, secrets, cmd, context, project_id, name, payload,
                   prompt, qry, source, lookups, clients, requests, sent,
                   response, stdout, exc, prev>>

\* what send_message can do: return a reply, or raise a service error
SendOutcomes == {[ok |-> TRUE, text |-> r] : r \in Replies}
                    \cup {[ok |-> FALSE, text |-> <<>>]}

\* mutant of SendInstruction: the error of the first message is swallowed
\* and the command goes on to the second
SendInstructionIgnoringError(outcome) ==
    /\ pc = "send_instruction"
    /\ sent' = Append(sent, Message(sessions, qry))
    /\ pc' = "send_context"
    /\ log' = Append(log, Entry("send_instruction",
                                 IF outcome.ok THEN "reply" ELSE "ServiceError",
                                 outcome.text))
    /\ UNCHANGED <<environ, secrets, cmd, context, project_id, name, payload,
                   prompt, qry, source, lookups, clients, requests, sessions,
                   response, stdout, exc, prev>>

\* readme line 141, releasenotes line 194: the instruction is sent and its
\* reply dropped; an error is not caught
SendInstruction(outcome) ==
    /\ pc = "send_instruction"
    /\ sent' = Append(sent, Message(sessions, qry))
    /\ IF outcome.ok
       THEN /\ pc' = "send_context"
            /\ log' = Append(log, Entry("send_instruction", "reply", outcome.text))
            /\ UNCHANGED exc
       ELSE /\ pc' = "raised"
            /\ exc' = "ServiceError"
            /\ log' = Append(log, Entry("send_instruction", "ServiceError", <<>>))
    /\ UNCHANGED <<environ, secrets, cmd, context, project_id, name, payload,
                   prompt, qry, source, lookups, clients, requests, sessions,
                   response, stdout, prev>>

\* mutant of SendContext: the error is caught and reported with an echo
SendContextCatching(outcome) ==
    /\ pc = "send_context"
    /\ sent' = Append(sent, Message(sessions, source))
    /\ IF outcome.ok
       THEN /\ response' = Some(outcome.text)
            /\ pc' = "echo"
            /\ log' = Append(log, Entry("send_context", "reply", outcome.text))
            /\ UNCHANGED <<exc, stdout>>
       ELSE /\ pc' = "raised"
            /\ exc' = "ServiceError"
            /\ stdout' = Append(stdout, <<69>>)
            /\ log' = Append(log, Entry("send_context", "ServiceError", <<>>))
            /\ UNCHANGED response
    /\ UNCHANGED <<environ, secrets, cmd, context, project_id, name, payload,
                   prompt, qry, source, lookups, clients, requests, sessions,
                   prev>>

\* readme line 142, releasenotes line 195: the wrapped context is sent and
\* its reply kept; an error is not caught
SendContext(outcome) ==
    /\ pc = "send_context"
    /\ sent' = Append(sent, Message(sessions, source))
    /\ IF outcome.ok
       THEN /\ response' = Some(outcome.text)
            /\ pc' = "echo"
            /\ log' = Append(log, Entry("send_context", "reply", outcome.text))
            /\ UNCHANGED exc
       ELSE /\ pc' = "raised"
            /\ exc' = "ServiceError"
            /\ log' = Append(log, Entry("send_context", "ServiceError", <<>>))
            /\ UNCHANGED response
    /\ UNCHANGED <<environ, secrets, cmd, context, project_id, name, payload,
                   prompt, qry, source, lookups, clients, requests, sessions,
                   stdout, prev>>

\* mutant of EchoResponse: the reply to the first message is the one echoed
EchoResponseToInstruction ==
    /\ pc = "echo"
    /\ stdout' = Append(stdout, DataOf("send_instruction"))
    /\ pc' = "done"
    /\ log' = Append(log, Entry("echo_response", "ok", <<>>))
    /\ UNCHANGED <<environ, secrets, cmd, context, project_id, name, payload,
                   prompt, qry, source, lookups, clients, requests, sessions,
                   sent, response, exc, prev>>

\* readme line 144, releasenotes line 197
EchoResponse ==
    /\ pc = "echo"
    /\ stdout' = Append(stdout, response.val)
    /\ pc' = "done"
    /\ log' = Append(log, Entry("echo_response", "ok", <<>>))
    /\ UNCHANGED <<environ, secrets, cmd, context, project_id, name, payload,
                   prompt, qry, source, lookups, clients, requests, sessions,
                   sent, response, exc, prev>>

\* an observer keeps what a finished readme invocation was given and did,
\* as its process ends; in a later invocation prev is an earlier one
Remember ==
    /\ pc \in {"done", "raised"}
    /\ cmd = "readme"
    /\ prev' = [set |-> TRUE, context |-> context, log |-> log, sent |-> sent,
                stdout |-> stdout, exc |-> exc]
    /\ pc' = "idle"
    /\ UNCHANGED <<environ, secrets, cmd, context, project_id, name, payload,
                   prompt, qry, source, lookups, clients, requests, sessions,
                   sent, response, stdout, exc, log>>

Steps ==
    \/ ResolveProject
    \/ \E outcome \in ClientOutcomes : ConstructClient(outcome)
    \/ \E fault \in Faults : AccessSecret(fault)
    \/ DecodePayload
    \/ SelectTemplate
    \/ \E blob \in Blobs : FormatContext(blob)
    \/ StartChat
    \/ \E outcome \in SendOutcomes : SendInstruction(outcome)
    \/ \E outcome \in SendOutcomes : SendContext(outcome)
    \/ EchoResponse

Next ==
    \/ \E c \in Commands, ctx \in Contexts, opt \in OptionValues : Invoke(c, ctx, opt)
    \/ Steps

Spec == Init /\ [][Next]_vars

\* readme invocations only, with the observer
NextPair ==
    \/ \E ctx \in Contexts, opt \in OptionValues : Invoke("readme", ctx, opt)
    \/ Steps
    \/ Remember

SpecPair == Init /\ [][NextPair]_vars

(***************************************************************************)
(* Properties                                                              *)
(***************************************************************************)
Generating == cmd \in GeneratingCommands
Produced == Generating /\ pc = "done"
ProjectSet == environ["PROJECT_ID"].some

\* C1, as stated: every generating invocation that produces a result has
\* sent exactly one request to the secret store, whatever the environment,
\* and has run exactly one chat session with exactly two messages, the
\* instruction and then the wrapped context, before its one reply text.
C1_ExactlyOneStoreRequest ==
    Produced =>
        /\ Len(requests) = 1
        /\ sessions = 1
        /\ sent = <<Message(1, qry), Message(1, SourceFormat(DataOf("format_context")))>>
        /\ Len(stdout) = 2
        /\ stdout[2] = DataOf("send_context")

\* C1, amended: every generating invocation that produces a result has
\* called get_prompt exactly once, which sent at most one request to the
\* secret store: exactly one when PROJECT_ID is set and the client was
\* constructed, none otherwise; and it has run exactly one chat session
\* with exactly two messages, the instruction and then the wrapped
\* context, before its one reply text.
C1_OneLookupOneSession ==
    Produced =>
        /\ lookups = 1
        /\ Len(requests) <= 1
        /\ Len(requests) = 1 <=> (ProjectSet /\ Happened("construct_client", "ok"))
        /\ sessions = 1
        /\ sent = <<Message(1, qry), Message(1, SourceFormat(DataOf("format_context")))>>
        /\ Len(stdout) = 2
        /\ stdout[2] = DataOf("send_context")

C1_Witness == Produced /\ Len(requests) = 1 /\ Happened("access_secret", "PermissionDenied")

\* C2: the first message of a generating command is the text get_prompt
\* returned, untouched, and then not the built-in default; when get_prompt
\* returned no value it is the built-in default of the command's own kind.
C2_InstructionIsTemplateOrDefault ==
    (Generating /\ Len(sent) >= 1) =>
        /\ prompt.some =>
              /\ sent[1].text = prompt.val
              /\ sent[1].text \notin {ReadmeDefaultInstruction, ReleaseNotesDefaultInstruction}
        /\ (~prompt.some /\ cmd = "readme") => sent[1].text = ReadmeDefaultInstruction
        /\ (~prompt.some /\ cmd = "releasenotes") =>
              sent[1].text = ReleaseNotesDefaultInstruction

C2_Witness == Generating /\ Len(sent) >= 1 /\ prompt = Some(<<>>)

\* C3, as stated: once PROJECT_ID is resolved, a failure at any step of the
\* lookup (constructing the client, the access request, decoding) makes
\* get_prompt return no value without raising, and the command goes on to
\* generation with its default template.
LookupFailed ==
    \/ \E k \in ClientOutcomes \ {"ok"} : Happened("construct_client", k)
    \/ \E k \in {"PermissionDenied", "NotFound", "Exception"} : Happened("access_secret", k)
    \/ Happened("decode", "Exception")

C3_LookupFailuresAbsorbed ==
    (Generating /\ project_id.some /\ LookupFailed) =>
        /\ prompt = None
        /\ exc # "ClientError"
        /\ pc = "raised" => exc = "ServiceError"
        /\ Len(sent) >= 1 =>
              sent[1].text = IF cmd = "readme" THEN ReadmeDefaultInstruction
                                               ELSE ReleaseNotesDefaultInstruction

\* C4: with PROJECT_ID unset get_prompt returns no value, raises nothing,
\* sends the secret store nothing, and the command sends its built-in
\* default; with PROJECT_ID set, to "" as well, ensure_env_variable returns
\* the value and the lookup goes on to the secret-store client.
C4_MissingProjectIsCaught ==
    (Generating /\ lookups >= 1) =>
        /\ ~ProjectSet =>
              /\ prompt = None
              /\ project_id = None
              /\ clients = 0
              /\ requests = <<>>
              /\ exc \in {"none", "ServiceError"}
              /\ pc # "client"
              /\ Len(sent) >= 1 =>
                    sent[1].text = IF cmd = "readme" THEN ReadmeDefaultInstruction
                                                     ELSE ReleaseNotesDefaultInstruction
        /\ ProjectSet =>
              /\ project_id = environ["PROJECT_ID"]
              /\ pc = "client" \/ clients = 1

C4_Witness == Generating /\ ~ProjectSet /\ Len(sent) = 2 /\ pc = "done"

\* C5, as stated: update-readme and update-releasenotes, with any of their
\* options given or omitted, end normally with the placeholder as their
\* whole output, and look up no template, format no context and talk to no
\* model.
C5_StubsEchoPlaceholder ==
    (cmd \in StubCommands /\ pc # "idle") =>
        /\ pc = "done"
        /\ exc = "none"
        /\ cmd = "update-readme" => stdout = <<UpdateReadmePlaceholder>>
        /\ cmd = "update-releasenotes" => stdout = <<UpdateReleaseNotesPlaceholder>>
        /\ lookups = 0
        /\ requests = <<>>
        /\ source = <<>>
        /\ sessions = 0
        /\ sent = <<>>

\* C6, as stated: when a message to the model fails the error is not
\* caught, the command ends with it, and the invocation has written no
\* line at all to standard output.
ServiceFailed ==
    Happened("send_instruction", "ServiceError") \/ Happened("send_context", "ServiceError")

C6_NoOutputOnServiceError ==
    (Generating /\ ServiceFailed) =>
        /\ pc = "raised"
        /\ exc = "ServiceError"
        /\ stdout = <<>>

\* C6, amended: when a message to the model fails the error is not caught,
\* the command ends with it, and the invocation has written no reply text
\* to standard output: the one line written is the command's banner,
\* echoed before the lookup.
C6_OnlyBannerOnServiceError ==
    (Generating /\ ServiceFailed) =>
        /\ pc = "raised"
        /\ exc = "ServiceError"
        /\ response = None
        /\ cmd = "readme" => stdout = <<ReadmeBanner>>
        /\ cmd = "releasenotes" => stdout = <<ReleaseNotesBanner>>

C6_Witness == Generating /\ Happened("send_context", "ServiceError") /\ Len(sent) = 2

\* C7, as stated: the output of a successful generating command is the
\* reply to the second message and nothing else.
C7_OutputIsReplyOnly ==
    Produced => stdout = <<DataOf("send_context")>>

\* C7, amended: the output of a successful generating command is the
\* command's banner line followed by the reply to the second message,
\* unchanged, and nothing else; the reply to the first message is dropped.
C7_OutputIsBannerThenReply ==
    Produced =>
        /\ Len(stdout) = 2
        /\ cmd = "readme" => stdout[1] = ReadmeBanner
        /\ cmd = "releasenotes" => stdout[1] = ReleaseNotesBanner
        /\ stdout[2] = DataOf("send_context")

C7_Witness == Produced /\ DataOf("send_instruction") # DataOf("send_context")

\* C8: a readme invocation that was given the same context and heard the
\* same answers from the environment, secret store, formatter and model as
\* an earlier one has sent the same messages, written the same output and
\* ended the same way.
C8_SameInputsSameOutputs ==
    (/\ prev.set
     /\ cmd = "readme"
     /\ pc \in {"done", "raised"}
     /\ prev.context = context
     /\ prev.log = log) =>
        /\ prev.sent = sent
        /\ prev.stdout = stdout
        /\ prev.exc = exc

C8_Witness ==
    /\ prev.set
    /\ cmd = "readme"
    /\ pc = "done"
    /\ prev.context = context
    /\ prev.log = log
    /\ Happened("decode", "ok")

\* C9, as stated: readme asks for document_readme, releasenotes asks for a
\* key of its own, so a template stored under document_readme alone (the
\* only template this store ever holds) is never the instruction of a
\* releasenotes invocation.
C9_KeyPerDocumentKind ==
    /\ \A i \in DOMAIN requests :
          /\ cmd = "readme" => requests[i].secret = ReadmeKey
          /\ cmd = "releasenotes" => requests[i].secret # ReadmeKey
    /\ (cmd = "releasenotes" /\ Len(sent) >= 1) =>
          sent[1].text = ReleaseNotesDefaultInstruction

\* C10: the steps of a generating invocation come in one order and none
\* comes twice: the template is settled before the context is formatted,
\* the context is formatted before the chat session is opened, the context
\* message goes out only after the instruction message was answered, and
\* after a failed instruction message nothing more is sent.
StepOrder ==
    <<"invoke", "resolve_project", "construct_client", "access_secret", "decode",
      "select_template", "format_context", "start_chat", "send_instruction",
      "send_context", "echo_response">>
Position(step) == CHOOSE k \in DOMAIN StepOrder : StepOrder[k] = step
Before(i, step, kind) == \E j \in 1..(i - 1) : log[j].step = step /\ log[j].kind = kind

C10_StepsInOrderOnce ==
    Generating =>
        /\ \A i, j \in DOMAIN log :
              i < j => Position(log[i].step) < Position(log[j].step)
        /\ \A i \in DOMAIN log :
              /\ log[i].step = "format_context" => Before(i, "select_template", "ok")
              /\ log[i].step = "start_chat" => Before(i, "format_context", "ok")
              /\ log[i].step = "send_instruction" => Before(i, "start_chat", "ok")
              /\ log[i].step = "send_context" => Before(i, "send_instruction", "reply")
              /\ log[i].kind = "ServiceError" => i = Len(log)
        /\ Len(sent) = Cardinality({i \in DOMAIN log :
                                      log[i].step \in {"send_instruction", "send_context"}})
        /\ Happened("send_instruction", "ServiceError") =>
              /\ sent = <<Message(1, qry)>>
              /\ pc = "raised"

C10_Witness == Generating /\ Happened("send_instruction", "ServiceError")

=============================================================================
